---------------------------- MODULE Spec2Model ----------------------------
(***************************************************************************)
(* A model of synthesis/synth-util.py: the three synthesis flows           *)
(* (run_circt_synthesis, run_yosys_synthesis, run_hybrid_synthesis), the   *)
(* process runner they share (run_command), the metric extractors and the  *)
(* comparator (compare_results), sequenced as run_comparison does.         *)
(*                                                                         *)
(* Encodings.  A Python Optional is a sequence of length at most one:      *)
(* None is <<>> and a value v is <<v>>.  A text read by an extractor is a  *)
(* sequence of lines.  A line of a Yosys log is an integer: n >= 0 is an   *)
(* ABC statistics line "ABC: netlist : ... lev = n" and -1 is any line the *)
(* pattern does not match.  stderr texts and error messages are strings.   *)
(* A dict is a function whose DOMAIN is the set of keys present.           *)
(* The wall clock is an input: each read of time.time() - start_time draws *)
(* a value of Runtimes.  print and self.log are taken not to fail.         *)
(***************************************************************************)
EXTENDS Integers, Sequences, FiniteSets, TLC

VARIABLES
    pc,             \* position in run_comparison and in the flow it is running
    results,        \* the SynthesisResults object of the flow that is running
    calls,          \* the run_command calls of the flow that is running, in order
    yosys_script,   \* the flow's transient Yosys script: "none", "exists", "deleted"
    circt_results,  \* run_comparison's local circt_results
    yosys_results,  \* run_comparison's local yosys_results
    hybrid_results, \* run_comparison's local hybrid_results
    comparison,     \* comparison['analysis'] as returned by compare_results
    raised,         \* the exception that left compare_results, "" when none
    cmd_env,        \* run_command on its own: the environment of one call
    cmd_out,        \* run_command on its own: what the call did
    given,          \* compare_results on its own: the results as they were passed
    again,          \* compare_results on its own: what the second call did
    verilog_files,  \* run_batch_comparison's list of discovered files
    file_index,     \* the number of files the batch loop has handled
    batch_results,  \* run_batch_comparison's batch_results dict
    handled,        \* what happened to each file handled, in order (history)
    exit_status,    \* the status main exits with, None while it runs
    ext_in,         \* an extractor on its own: the extractor and the file it is given
    ext_out         \* an extractor on its own: what the call did

\* the variables of compare_results on its own
compare_vars == <<given, again>>

\* the variables of run_batch_comparison
batch_vars == <<verilog_files, file_index, batch_results, handled>>

\* the variables of an extractor on its own
extract_vars == <<ext_in, ext_out>>

\* the variables that the flows and run_command leave alone
apart == <<compare_vars, batch_vars, exit_status, extract_vars>>

vars == <<pc, results, calls, yosys_script, circt_results, yosys_results,
          hybrid_results, comparison, raised, cmd_env, cmd_out, apart>>

----------------------------------------------------------------------------
(* Bounds of the model *)

MaxLevel == 1
MaxLuts == 1
MaxRuntime == 1

Levels == 0..MaxLevel
LutCounts == 0..MaxLuts
Runtimes == 0..MaxRuntime

----------------------------------------------------------------------------
(* Optional values *)

None == <<>>
Some(v) == <<v>>
IsNone(o) == o = <<>>
Get(o) == o[1]

----------------------------------------------------------------------------
(* SynthesisResults *)

NewResults ==
    [timing_levels |-> None, lut_count |-> None, runtime |-> None,
     success |-> FALSE, error_message |-> None]

----------------------------------------------------------------------------
(* The environment of one run_command call: whether the launch raises, and *)
(* what the process returns when it does not.                              *)

Launches == {"ok", "FileNotFoundError", "OSError"}
ReturnCodes == {0, 1}
Stderrs == {"", "err"}

\* Yosys logs: no line, a line the pattern does not match, one statistics
\* line, two statistics lines around another line.
LogTexts ==
    {<<>>, <<-1>>} \cup {<<a>> : a \in Levels}
        \cup {<<a, -1, b>> : a \in Levels, b \in Levels}

\* When the launch raises there is no process: its fields are left at rest.
CmdEnvs(stdouts) ==
    {[launch |-> l, returncode |-> 0, stdout |-> <<>>, stderr |-> ""] :
        l \in Launches \ {"ok"}}
        \cup [launch : {"ok"}, returncode : ReturnCodes, stdout : stdouts,
              stderr : Stderrs]

\* run_command without its last handler, "except Exception as e:"
run_command_without_last_handler(env, capture_output) ==
    IF env.launch = "ok"
    THEN [raises |-> FALSE, returncode |-> env.returncode,
          stdout |-> IF capture_output THEN env.stdout ELSE <<>>,
          stderr |-> IF capture_output THEN env.stderr ELSE ""]
    ELSE IF env.launch = "FileNotFoundError"
    THEN [raises |-> FALSE, returncode |-> -1, stdout |-> <<>>,
          stderr |-> "Command not found: " \o env.launch]
    ELSE [raises |-> TRUE, returncode |-> 0, stdout |-> <<>>, stderr |-> env.launch]

\* run_command(cmd, cwd, capture_output): the 3-tuple it returns, or the
\* exception it lets through.
run_command(env, capture_output) ==
    IF env.launch = "ok"
    THEN IF capture_output
         THEN [raises |-> FALSE, returncode |-> env.returncode,
               stdout |-> env.stdout, stderr |-> env.stderr]
         ELSE [raises |-> FALSE, returncode |-> env.returncode,
               stdout |-> <<>>, stderr |-> ""]
    ELSE IF env.launch = "FileNotFoundError"
    THEN [raises |-> FALSE, returncode |-> -1, stdout |-> <<>>,
          stderr |-> "Command not found: " \o env.launch]
    ELSE [raises |-> FALSE, returncode |-> -1, stdout |-> <<>>,
          stderr |-> "Error running command: " \o env.launch]

\* "if returncode > 0:" in place of "if returncode != 0:"
failed_if_positive(returncode) == returncode > 0

\* "if returncode != 0:" after each stage
Failed(returncode) == returncode # 0

\* What a flow keeps of a call: the command, the exit status and, for a call
\* that failed, the stderr (the stderr of a call that passed is only logged).
Call(cmd, r) ==
    [cmd |-> cmd, returncode |-> r.returncode,
     stderr |-> IF r.returncode # 0 THEN r.stderr ELSE ""]

\* A flow's "except Exception as e:" handler
except_handler(res, prefix, e, rt) ==
    [res EXCEPT !.error_message = Some(prefix \o e), !.runtime = Some(rt)]

\* the success flag set without the runtime
finish_without_runtime(res, rt) ==
    [res EXCEPT !.success = TRUE]

\* "results.runtime = time.time() - start_time; results.success = True"
finish(res, rt) ==
    [res EXCEPT !.runtime = Some(rt), !.success = TRUE]

----------------------------------------------------------------------------
(* Metric extractors *)

Max(S) == CHOOSE m \in S : \A x \in S : x <= m

\* A longest-path JSON file: whether it opens and parses, and the parsed
\* list of modules; a module may lack 'timing_levels', a bucket may lack
\* 'level' or 'count'.
OptLevels == {None} \cup {Some(l) : l \in Levels}
OptCounts == {None} \cup {Some(n) : n \in LutCounts}
Buckets == [level : OptLevels, percentage : {50, 100}, count : OptCounts]
BucketLists ==
    {<<>>} \cup {<<a>> : a \in Buckets} \cup {<<a, b>> : a \in Buckets, b \in Buckets}
JsonDocs ==
    {[readable |-> FALSE, data |-> <<>>], [readable |-> TRUE, data |-> <<>>],
     [readable |-> TRUE,
      data |-> <<[has_timing_levels |-> FALSE, timing_levels |-> <<>>]>>]}
        \cup {[readable |-> TRUE,
               data |-> <<[has_timing_levels |-> TRUE, timing_levels |-> b]>>] :
                  b \in BucketLists}

\* the loop "for level in levels_data: if level.get('percentage') == 100"
RECURSIVE first_full_count(_)
first_full_count(levels_data) ==
    IF levels_data = <<>> THEN None
    ELSE IF Head(levels_data).percentage = 100 THEN Head(levels_data).count
    ELSE first_full_count(Tail(levels_data))

\* The try block of _parse_circt_json: the pair it returns, or the
\* exception raised in it (open or json.load fails; level['level'] of a
\* bucket without 'level' is a KeyError).
parse_circt_json_try(doc) ==
    IF ~doc.readable THEN [raises |-> "OSError", value |-> <<None, None>>]
    ELSE IF /\ doc.data # <<>>
            /\ doc.data[1].has_timing_levels
            /\ doc.data[1].timing_levels # <<>>
    THEN LET levels_data == doc.data[1].timing_levels IN
         IF \E i \in 1..Len(levels_data) : IsNone(levels_data[i].level)
         THEN [raises |-> "KeyError", value |-> <<None, None>>]
         ELSE [raises |-> "",
               value |->
                   <<Some(Max({Get(levels_data[i].level) :
                                  i \in 1..Len(levels_data)})),
                     first_full_count(levels_data)>>]
    ELSE [raises |-> "", value |-> <<None, None>>]

\* _parse_circt_json with "except OSError as e:" as its handler
parse_circt_json_except_oserror(doc) ==
    LET r == parse_circt_json_try(doc) IN
    IF r.raises = "OSError" THEN [raises |-> "", value |-> <<None, None>>] ELSE r

\* _parse_circt_json: the try block under "except Exception as e: ...
\* return None, None"
parse_circt_json_call(doc) ==
    LET r == parse_circt_json_try(doc) IN
    IF r.raises # "" THEN [raises |-> "", value |-> <<None, None>>] ELSE r

\* the pair _parse_circt_json returns
parse_circt_json(doc) == parse_circt_json_call(doc).value

IsStatLine(line) == line >= 0

\* "re.findall(pattern, content)": the integers of the statistics lines,
\* in the order of the text
findall(content) == SelectSeq(content, IsStatLine)

\* _parse_yosys_abc_levels returning int(matches[0])
parse_yosys_abc_levels_first(file) ==
    IF ~file.readable THEN [raises |-> "", value |-> None]
    ELSE LET matches == findall(file.content) IN
         [raises |-> "",
          value |-> IF matches # <<>> THEN Some(matches[1]) ELSE None]

\* _parse_yosys_abc_levels returning min(int(m) for m in matches)
parse_yosys_abc_levels_min(file) ==
    IF ~file.readable THEN [raises |-> "", value |-> None]
    ELSE LET matches == findall(file.content) IN
         [raises |-> "",
          value |-> IF matches # <<>>
                    THEN Some(CHOOSE m \in {matches[i] : i \in 1..Len(matches)} :
                                 \A i \in 1..Len(matches) : m <= matches[i])
                    ELSE None]

\* _parse_yosys_abc_levels: int(matches[-1]), None without a match, and
\* None from the handler when the log cannot be read
parse_yosys_abc_levels_call(file) ==
    IF ~file.readable THEN [raises |-> "", value |-> None]
    ELSE LET matches == findall(file.content) IN
         [raises |-> "",
          value |-> IF matches # <<>> THEN Some(matches[Len(matches)]) ELSE None]

\* the value _parse_yosys_abc_levels returns
parse_yosys_abc_levels(file) == parse_yosys_abc_levels_call(file).value

\* A BLIF file with n .names lines
BlifText(n) == <<".model top">> \o [i \in 1..n |-> ".names"] \o <<".end">>
BlifFiles ==
    {[readable |-> FALSE, content |-> <<>>]}
        \cup {[readable |-> TRUE, content |-> BlifText(n)] : n \in LutCounts}

IsNamesLine(line) == line = ".names"

\* _count_luts_in_blif with "return lut_count"
count_luts_in_blif_returning_zero(file) ==
    IF ~file.readable THEN [raises |-> "", value |-> None]
    ELSE [raises |-> "", value |-> Some(Len(SelectSeq(file.content, IsNamesLine)))]

\* _count_luts_in_blif: "return lut_count if lut_count > 0 else None", and
\* None from the handler when the file cannot be read
count_luts_in_blif_call(file) ==
    IF ~file.readable THEN [raises |-> "", value |-> None]
    ELSE LET lut_count == Len(SelectSeq(file.content, IsNamesLine)) IN
         [raises |-> "",
          value |-> IF lut_count > 0 THEN Some(lut_count) ELSE None]

\* the value _count_luts_in_blif returns
count_luts_in_blif(file) == count_luts_in_blif_call(file).value

----------------------------------------------------------------------------
(* The flows.  Every action below is one step of the flow that is running:  *)
(* a run_command call with the check of its exit status, or the            *)
(* statements between two calls.                                           *)

\* A command stage whose failure is recorded without the "return results"
stage_without_return(here, cmd, failmsg, errmsg, next, ret) ==
    /\ pc = here
    /\ \E env \in CmdEnvs({<<>>}) :
         LET r == run_command(env, TRUE) IN
         /\ calls' = Append(calls, Call(cmd, r))
         /\ results' = IF Failed(r.returncode)
                       THEN [results EXCEPT
                                !.error_message = Some(failmsg \o r.stderr)]
                       ELSE results
         /\ pc' = next
    /\ UNCHANGED <<yosys_script, circt_results, yosys_results, hybrid_results,
                   comparison, raised, cmd_env, cmd_out,
                   apart>>

\* One command stage: run_command, then "if returncode != 0: ... return".
Stage(here, cmd, failmsg, errmsg, next, ret) ==
    /\ pc = here
    /\ \E env \in CmdEnvs({<<>>}) :
         LET r == run_command(env, TRUE) IN
         IF r.raises
         THEN /\ \E rt \in Runtimes :
                   results' = except_handler(results, errmsg, r.stderr, rt)
              /\ calls' = calls
              /\ pc' = ret
         ELSE /\ calls' = Append(calls, Call(cmd, r))
              /\ IF Failed(r.returncode)
                 THEN /\ results' = [results EXCEPT
                                        !.error_message = Some(failmsg \o r.stderr)]
                      /\ pc' = ret
                 ELSE /\ results' = results
                      /\ pc' = next
    /\ UNCHANGED <<yosys_script, circt_results, yosys_results, hybrid_results,
                   comparison, raised, cmd_env, cmd_out,
                   apart>>

\* run_circt_synthesis, step 1
circt_verilog ==
    Stage("circt_verilog", "circt-verilog", "circt-verilog failed: ",
          "CIRCT synthesis error: ", "circt_synth", "circt_return")

\* run_circt_synthesis, step 2
circt_synth ==
    Stage("circt_synth", "circt-synth", "circt-synth failed: ",
          "CIRCT synthesis error: ", "circt_json", "circt_return")

\* An output file when the flow looks for it: Path.exists() raises, the
\* file is not there, or it is there with the content given.
JsonStates ==
    {[exists |-> e, file |-> [readable |-> FALSE, data |-> <<>>]] :
        e \in {"raises", "no"}}
        \cup {[exists |-> "yes", file |-> doc] : doc \in JsonDocs}
BlifStates ==
    {[exists |-> e, file |-> [readable |-> FALSE, content |-> <<>>]] :
        e \in {"raises", "no"}}
        \cup {[exists |-> "yes", file |-> blif] : blif \in BlifFiles}

\* a step 3 that returns without the success flag when the JSON file is
\* not there
parse_json_results_or_fail(res, json, rt) ==
    IF json.exists = "raises"
    THEN except_handler(res, "CIRCT synthesis error: ", "OSError", rt)
    ELSE IF json.exists = "no"
    THEN [res EXCEPT !.error_message = Some("JSON timing file not generated")]
    ELSE LET parsed == parse_circt_json(json.file) IN
         finish([res EXCEPT !.timing_levels = parsed[1],
                            !.lut_count = parsed[2]], rt)

\* "# Step 3: Parse JSON results" of run_circt_synthesis, then the runtime
\* and the success flag; the handler when json_file.exists() raises
parse_json_results(res, json, rt) ==
    IF json.exists = "raises"
    THEN except_handler(res, "CIRCT synthesis error: ", "OSError", rt)
    ELSE IF json.exists = "no"
    THEN finish(res, rt)
    ELSE LET parsed == parse_circt_json(json.file) IN
         finish([res EXCEPT !.timing_levels = parsed[1],
                            !.lut_count = parsed[2]], rt)

\* "# Count LUTs from BLIF file" of run_yosys_synthesis and
\* run_hybrid_synthesis, then the runtime and the success flag; the handler
\* when blif_file.exists() raises
count_blif_results(res, errmsg, blif, rt) ==
    IF blif.exists = "raises"
    THEN except_handler(res, errmsg, "OSError", rt)
    ELSE IF blif.exists = "no"
    THEN finish(res, rt)
    ELSE finish([res EXCEPT !.lut_count = count_luts_in_blif(blif.file)], rt)

\* run_circt_synthesis, step 3 and the end of the try block
circt_json ==
    /\ pc = "circt_json"
    /\ \E rt \in Runtimes, json \in JsonStates :
          results' = parse_json_results(results, json, rt)
    /\ pc' = "circt_return"
    /\ UNCHANGED <<calls, yosys_script, circt_results, yosys_results, hybrid_results,
                   comparison, raised, cmd_env, cmd_out,
                   apart>>

\* "_create_yosys_script(...)" / "_create_hybrid_yosys_script(...)" inside
\* the try block: the temporary file is created, or tempfile raises.
CreateScript(here, errmsg, next, ret) ==
    /\ pc = here
    /\ \/ /\ yosys_script' = "exists"
          /\ pc' = next
          /\ UNCHANGED results
       \/ \E rt \in Runtimes :
            /\ results' = except_handler(results, errmsg, "OSError", rt)
            /\ pc' = ret
            /\ UNCHANGED yosys_script
    /\ UNCHANGED <<calls, circt_results, yosys_results, hybrid_results,
                   comparison, raised, cmd_env, cmd_out,
                   apart>>

\* What "with open(log_file, 'w') as f: f.write(stdout); if stderr: ..."
\* leaves in the file: stdout, then a separator line and stderr.
LogContent(stdout, stderr) ==
    IF stderr # "" THEN stdout \o <<-1, -1>> ELSE stdout

\* The Yosys stage: run_command, the log is saved, the exit status is
\* checked, then "if log_file.exists(): results.timing_levels =
\* self._parse_yosys_abc_levels(log_file)".
YosysRun(here, failmsg, errmsg, next, ret) ==
    /\ pc = here
    /\ \E env \in CmdEnvs(LogTexts) :
         LET r == run_command(env, TRUE) IN
         IF r.raises
         THEN /\ \E rt \in Runtimes :
                   results' = except_handler(results, errmsg, r.stderr, rt)
              /\ UNCHANGED calls
              /\ pc' = ret
         ELSE /\ calls' = Append(calls, Call("yosys", r))
              /\ \/ /\ \E rt \in Runtimes :
                         results' = except_handler(results, errmsg, "OSError", rt)
                    /\ pc' = ret
                 \/ /\ Failed(r.returncode)
                    /\ results' = [results EXCEPT
                                      !.error_message = Some(failmsg \o r.stderr)]
                    /\ pc' = ret
                 \/ /\ ~Failed(r.returncode)
                    /\ \/ /\ \E rt \in Runtimes :
                               results' = except_handler(results, errmsg, "OSError", rt)
                          /\ pc' = ret
                       \/ /\ results' = results
                          /\ pc' = next
                       \/ /\ \E readable \in BOOLEAN :
                               results' = [results EXCEPT !.timing_levels =
                                  parse_yosys_abc_levels(
                                     [readable |-> readable,
                                      content |-> LogContent(r.stdout, r.stderr)])]
                          /\ pc' = next
    /\ UNCHANGED <<yosys_script, circt_results, yosys_results, hybrid_results,
                   comparison, raised, cmd_env, cmd_out,
                   apart>>

\* "if blif_file.exists(): results.lut_count = self._count_luts_in_blif(blif_file)",
\* then the runtime and the success flag.
CountBlif(here, errmsg, next, ret) ==
    /\ pc = here
    /\ \E rt \in Runtimes, blif \in BlifStates :
          /\ results' = count_blif_results(results, errmsg, blif, rt)
          /\ pc' = IF blif.exists = "raises" THEN ret ELSE next
    /\ UNCHANGED <<calls, yosys_script, circt_results, yosys_results, hybrid_results,
                   comparison, raised, cmd_env, cmd_out,
                   apart>>

\* "os.unlink(yosys_script)", the last statement of the try block
Unlink(here, errmsg, ret) ==
    /\ pc = here
    /\ \/ /\ yosys_script' = "deleted"
          /\ UNCHANGED results
       \/ \E rt \in Runtimes :
            /\ results' = except_handler(results, errmsg, "OSError", rt)
            /\ UNCHANGED yosys_script
    /\ pc' = ret
    /\ UNCHANGED <<calls, circt_results, yosys_results, hybrid_results,
                   comparison, raised, cmd_env, cmd_out,
                   apart>>

\* run_yosys_synthesis
yosys_create_script ==
    CreateScript("yosys_script", "Yosys synthesis error: ", "yosys_run", "yosys_return")

yosys_run ==
    YosysRun("yosys_run", "Yosys failed: ", "Yosys synthesis error: ",
             "yosys_blif", "yosys_return")

yosys_count_blif ==
    CountBlif("yosys_blif", "Yosys synthesis error: ", "yosys_unlink", "yosys_return")

yosys_unlink ==
    Unlink("yosys_unlink", "Yosys synthesis error: ", "yosys_return")

\* run_hybrid_synthesis
hybrid_verilog ==
    Stage("hybrid_verilog", "circt-verilog", "circt-verilog failed: ",
          "Hybrid synthesis error: ", "hybrid_synth", "hybrid_return")

hybrid_synth ==
    Stage("hybrid_synth", "circt-synth", "circt-synth failed: ",
          "Hybrid synthesis error: ", "hybrid_translate", "hybrid_return")

hybrid_translate ==
    Stage("hybrid_translate", "circt-translate",
          "circt-translate AIGER export failed: ",
          "Hybrid synthesis error: ", "hybrid_script", "hybrid_return")

hybrid_create_script ==
    CreateScript("hybrid_script", "Hybrid synthesis error: ", "hybrid_run",
                 "hybrid_return")

hybrid_run ==
    YosysRun("hybrid_run", "Yosys LUT mapping failed: ", "Hybrid synthesis error: ",
             "hybrid_blif", "hybrid_return")

hybrid_count_blif ==
    CountBlif("hybrid_blif", "Hybrid synthesis error: ", "hybrid_unlink",
              "hybrid_return")

hybrid_unlink ==
    Unlink("hybrid_unlink", "Hybrid synthesis error: ", "hybrid_return")

----------------------------------------------------------------------------
(* compare_results *)

EmptyDict == [k \in {} |-> 0]
Unable == "Unable to compare"

\* "flows = []; if circt_results.success: flows.append(('CIRCT', ...)) ..."
\* hybrid_results is an Optional[SynthesisResults].
successful_flows(circt, yosys, hybrid) ==
    (IF circt.success THEN <<<<"CIRCT", circt>>>> ELSE <<>>)
        \o (IF yosys.success THEN <<<<"Yosys+ABC", yosys>>>> ELSE <<>>)
        \o (IF ~IsNone(hybrid) /\ Get(hybrid).success
            THEN <<<<"CIRCT+Yosys", Get(hybrid)>>>> ELSE <<>>)

\* "[(name, result.<field>) for name, result in flows if result.<field> is not None]"
metric_list(flows, field) ==
    LET present == SelectSeq(flows, LAMBDA f : ~IsNone(f[2][field])) IN
    [i \in 1..Len(present) |-> <<present[i][1], Get(present[i][2][field])>>]

\* an insertion that puts x before the entries of equal value
RECURSIVE insert_before_equal(_, _)
insert_before_equal(x, sorted) ==
    IF sorted = <<>> THEN <<x>>
    ELSE IF x[2] <= Head(sorted)[2] THEN <<x>> \o sorted
    ELSE <<Head(sorted)>> \o insert_before_equal(x, Tail(sorted))

\* list.sort(key=lambda x: x[1]): a stable sort, ascending by the value
RECURSIVE insert_sorted(_, _)
insert_sorted(x, sorted) ==
    IF sorted = <<>> THEN <<x>>
    ELSE IF x[2] < Head(sorted)[2] THEN <<x>> \o sorted
    ELSE <<Head(sorted)>> \o insert_sorted(x, Tail(sorted))

\* list.sort(key=lambda x: x[1], reverse=True)
RECURSIVE sort_descending(_)
sort_descending(list) ==
    IF list = <<>> THEN <<>>
    ELSE LET rest == sort_descending(SubSeq(list, 1, Len(list) - 1))
             x == list[Len(list)]
             before == SelectSeq(rest, LAMBDA e : e[2] >= x[2])
             after == SelectSeq(rest, LAMBDA e : e[2] < x[2])
         IN  before \o <<x>> \o after

RECURSIVE sort_by_value(_)
sort_by_value(list) ==
    IF list = <<>> THEN <<>>
    ELSE insert_sorted(list[Len(list)], sort_by_value(SubSeq(list, 1, Len(list) - 1)))

\* a depth comparison that reports 'Tie' when the two best depths are equal
timing_analysis_with_ties(flows) ==
    LET unsorted == metric_list(flows, "timing_levels")
        timing_levels == sort_by_value(unsorted)
    IN  IF Len(unsorted) >= 2
        THEN ("timing_winner" :>
                 IF timing_levels[1][2] = timing_levels[2][2] THEN "Tie"
                 ELSE timing_levels[1][1])
                 @@ ("timing_levels_all" :> timing_levels)
                 @@ ("timing_improvement" :>
                        timing_levels[2][2] - timing_levels[1][2])
        ELSE ("timing_winner" :> Unable)

\* "# Timing levels comparison"
timing_analysis(flows) ==
    LET unsorted == metric_list(flows, "timing_levels")
        timing_levels == sort_by_value(unsorted)
    IN  IF Len(unsorted) >= 2
        THEN ("timing_winner" :> timing_levels[1][1])
                 @@ ("timing_levels_all" :> timing_levels)
                 @@ ("timing_improvement" :>
                        IF Len(timing_levels) > 1
                        THEN timing_levels[2][2] - timing_levels[1][2] ELSE 0)
        ELSE ("timing_winner" :> Unable)

\* "# LUT count comparison"
area_analysis(flows) ==
    LET unsorted == metric_list(flows, "lut_count")
        lut_counts == sort_by_value(unsorted)
    IN  IF Len(unsorted) >= 2
        THEN ("area_winner" :> lut_counts[1][1])
                 @@ ("lut_counts_all" :> lut_counts)
                 @@ ("area_improvement" :>
                        IF Len(lut_counts) > 1
                        THEN lut_counts[2][2] - lut_counts[1][2] ELSE 0)
        ELSE ("area_winner" :> Unable)

RECURSIVE GCD(_, _)
GCD(a, b) == IF b = 0 THEN a ELSE GCD(b, a % b)

\* The float a / b, for b # 0, as the fraction in lowest terms
Quotient(a, b) == <<a \div GCD(a, b), b \div GCD(a, b)>>

\* a runtime comparison that reports the difference, as the other two do
runtime_analysis_difference(flows) ==
    LET unsorted == metric_list(flows, "runtime")
        runtimes == sort_by_value(unsorted)
    IN  IF Len(unsorted) >= 2
        THEN [raises |-> "",
              entries |-> ("runtime_winner" :> runtimes[1][1])
                              @@ ("runtimes_all" :> runtimes)
                              @@ ("speedup" :>
                                     <<runtimes[2][2] - runtimes[1][2], 1>>)]
        ELSE [raises |-> "", entries |-> EmptyDict]

\* "# Runtime comparison": the dict entries it adds, or the ZeroDivisionError
\* of "runtimes[1][1] / runtimes[0][1]"
runtime_analysis(flows) ==
    LET unsorted == metric_list(flows, "runtime")
        runtimes == sort_by_value(unsorted)
    IN  IF Len(unsorted) >= 2
        THEN IF Len(runtimes) > 1
             THEN IF runtimes[1][2] = 0
                  THEN [raises |-> "ZeroDivisionError", entries |-> EmptyDict]
                  ELSE [raises |-> "",
                        entries |->
                            ("runtime_winner" :> runtimes[1][1])
                                @@ ("runtimes_all" :> runtimes)
                                @@ ("speedup" :>
                                       Quotient(runtimes[2][2], runtimes[1][2]))]
             ELSE [raises |-> "",
                   entries |-> ("runtime_winner" :> runtimes[1][1])
                                   @@ ("runtimes_all" :> runtimes)
                                   @@ ("speedup" :> <<1, 1>>)]
        ELSE [raises |-> "", entries |-> EmptyDict]

\* compare_results: comparison['analysis'], or the exception that leaves it
compare_results(circt, yosys, hybrid) ==
    LET flows == successful_flows(circt, yosys, hybrid) IN
    IF Len(flows) < 2
    THEN [raises |-> "",
          analysis |-> ("timing_winner" :> Unable) @@ ("area_winner" :> Unable)]
    ELSE LET runtime == runtime_analysis(flows) IN
         IF runtime.raises # ""
         THEN [raises |-> runtime.raises, analysis |-> EmptyDict]
         ELSE [raises |-> "",
               analysis |-> timing_analysis(flows) @@ area_analysis(flows)
                                @@ runtime.entries]

----------------------------------------------------------------------------
(* run_comparison *)

\* a run_comparison that goes to the comparison at once when the native
\* flow failed
circt_return_stopping_on_failure ==
    /\ pc = "circt_return"
    /\ circt_results' = results
    /\ results' = NewResults
    /\ calls' = <<>>
    /\ pc' = IF results.success THEN "yosys_script" ELSE "compare"
    /\ UNCHANGED <<yosys_script, yosys_results, hybrid_results, comparison,
                   raised, cmd_env, cmd_out,
                   apart>>

\* "circt_results = self.run_circt_synthesis(input_file)", then the call of
\* run_yosys_synthesis up to its try block
circt_return ==
    /\ pc = "circt_return"
    /\ circt_results' = results
    /\ results' = NewResults
    /\ calls' = <<>>
    /\ pc' = "yosys_script"
    /\ UNCHANGED <<yosys_script, yosys_results, hybrid_results, comparison,
                   raised, cmd_env, cmd_out,
                   apart>>

\* "yosys_results = self.run_yosys_synthesis(input_file)", then the call of
\* run_hybrid_synthesis up to its try block
yosys_return ==
    /\ pc = "yosys_return"
    /\ yosys_results' = results
    /\ results' = NewResults
    /\ calls' = <<>>
    /\ yosys_script' = "none"
    /\ pc' = "hybrid_verilog"
    /\ UNCHANGED <<circt_results, hybrid_results, comparison, raised, cmd_env,
                   cmd_out,
                   apart>>

\* "hybrid_results = self.run_hybrid_synthesis(input_file)"
hybrid_return ==
    /\ pc = "hybrid_return"
    /\ hybrid_results' = results
    /\ results' = NewResults
    /\ calls' = <<>>
    /\ yosys_script' = "none"
    /\ pc' = "compare"
    /\ UNCHANGED <<circt_results, yosys_results, comparison, raised, cmd_env,
                   cmd_out,
                   apart>>

\* "comparison = self.compare_results(circt_results, yosys_results, hybrid_results)"
compare ==
    /\ pc = "compare"
    /\ LET c == compare_results(circt_results, yosys_results, Some(hybrid_results)) IN
       /\ comparison' = c.analysis
       /\ raised' = c.raises
    /\ pc' = "done"
    /\ UNCHANGED <<results, calls, yosys_script, circt_results, yosys_results,
                   hybrid_results, cmd_env, cmd_out,
                   apart>>

\* The exceptions of a filesystem operation, "" when it succeeds
FsFaults == {"", "OSError"}

\* run_comparison as a function of what the three flows returned: it calls
\* compare_results, prints, and saves comparison_report.json (report_fault
\* is the exception of that write, "" when it succeeds).  The value is the
\* comparison dict it returns, or the exception that leaves it.
run_comparison(circt, yosys, hybrid, report_fault) ==
    LET c == compare_results(circt, yosys, Some(hybrid)) IN
    IF c.raises # "" THEN [raises |-> c.raises]
    ELSE IF report_fault # "" THEN [raises |-> report_fault]
    ELSE [raises |-> "", circt |-> circt, yosys |-> yosys, hybrid |-> hybrid,
          analysis |-> c.analysis]

\* run_comparison after compare_results: "self.print_results(comparison)"
\* and "# Save comparison report", then its return to main
save_report ==
    /\ pc = "done"
    /\ \E report_fault \in FsFaults :
          raised' = run_comparison(circt_results, yosys_results, hybrid_results,
                                   report_fault).raises
    /\ pc' = "comparison_returned"
    /\ UNCHANGED <<results, calls, yosys_script, circt_results, yosys_results,
                   hybrid_results, comparison, cmd_env, cmd_out, apart>>

----------------------------------------------------------------------------
(* main *)

\* main on a single file, after run_comparison: "except Exception as e:
\* ... sys.exit(1)", "# Exit with error code if all synthesis flows failed",
\* and status 0 when main returns
exit_after_comparison(e, circt, yosys, hybrid) ==
    IF e # "" THEN 1
    ELSE IF ~circt.success /\ ~yosys.success /\ ~hybrid.success THEN 1
    ELSE 0

\* main on a directory, after run_batch_comparison: "# Exit with error code
\* if any synthesis failed"
exit_after_batch(e, br) ==
    IF e # "" THEN 1
    ELSE IF br.summary.failed_comparisons > 0 THEN 1
    ELSE 0

main_single_file ==
    /\ pc = "comparison_returned"
    /\ exit_status' = Some(exit_after_comparison(raised, circt_results,
                                                 yosys_results, hybrid_results))
    /\ pc' = "exited"
    /\ UNCHANGED <<results, calls, yosys_script, circt_results, yosys_results,
                   hybrid_results, comparison, raised, cmd_env, cmd_out,
                   compare_vars, batch_vars,
                   extract_vars>>

main_directory ==
    /\ pc = "batch_returned"
    /\ exit_status' = Some(exit_after_batch(raised, batch_results))
    /\ pc' = "exited"
    /\ UNCHANGED <<results, calls, yosys_script, circt_results, yosys_results,
                   hybrid_results, comparison, raised, cmd_env, cmd_out,
                   compare_vars, batch_vars,
                   extract_vars>>

----------------------------------------------------------------------------
(* main on one file: one run of run_comparison, then the exit *)

\* compare_results is not being called on its own
compare_idle == given = None /\ again = None

\* no extractor is being called on its own
extract_idle == ext_in = None /\ ext_out = None

\* no batch is running
batch_idle ==
    /\ verilog_files = <<>>
    /\ file_index = 0
    /\ batch_results = EmptyDict
    /\ handled = <<>>

IdleEnv ==
    [launch |-> "ok", returncode |-> 0, stdout |-> <<>>, stderr |-> "",
     capture_output |-> TRUE]
NoOut ==
    [called |-> FALSE, raises |-> FALSE, returncode |-> 0, stdout |-> <<>>,
     stderr |-> ""]

Init ==
    /\ pc = "circt_verilog"
    /\ results = NewResults
    /\ calls = <<>>
    /\ yosys_script = "none"
    /\ circt_results = NewResults
    /\ yosys_results = NewResults
    /\ hybrid_results = NewResults
    /\ comparison = EmptyDict
    /\ raised = ""
    /\ cmd_env = IdleEnv
    /\ cmd_out = NoOut
    /\ compare_idle
    /\ batch_idle
    /\ exit_status = None
    /\ extract_idle

Next ==
    \/ circt_verilog \/ circt_synth \/ circt_json \/ circt_return
    \/ yosys_create_script \/ yosys_run \/ yosys_count_blif
    \/ yosys_unlink \/ yosys_return
    \/ hybrid_verilog \/ hybrid_synth \/ hybrid_translate \/ hybrid_create_script
    \/ hybrid_run \/ hybrid_count_blif \/ hybrid_unlink
    \/ hybrid_return
    \/ compare \/ save_report
    \/ main_single_file

Spec == Init /\ [][Next]_vars

----------------------------------------------------------------------------
(* run_command on its own *)

InitCmd ==
    /\ pc = "run_command"
    /\ results = NewResults
    /\ calls = <<>>
    /\ yosys_script = "none"
    /\ circt_results = NewResults
    /\ yosys_results = NewResults
    /\ hybrid_results = NewResults
    /\ comparison = EmptyDict
    /\ raised = ""
    /\ cmd_env \in {[launch |-> e.launch, returncode |-> e.returncode,
                     stdout |-> e.stdout, stderr |-> e.stderr,
                     capture_output |-> c] :
                        e \in CmdEnvs(LogTexts), c \in BOOLEAN}
    /\ cmd_out = NoOut
    /\ compare_idle
    /\ batch_idle
    /\ exit_status = None
    /\ extract_idle

call_run_command ==
    /\ pc = "run_command"
    /\ LET r == run_command(cmd_env, cmd_env.capture_output) IN
       cmd_out' = [called |-> TRUE, raises |-> r.raises, returncode |-> r.returncode,
                   stdout |-> r.stdout, stderr |-> r.stderr]
    /\ pc' = "returned"
    /\ UNCHANGED <<results, calls, yosys_script, circt_results, yosys_results,
                   hybrid_results, comparison, raised, cmd_env,
                   apart>>

NextCmd == call_run_command

SpecCmd == InitCmd /\ [][NextCmd]_vars

----------------------------------------------------------------------------
(* compare_results on its own: it is called twice on the same three        *)
(* SynthesisResults objects.                                               *)

\* The runtimes of the results passed to compare_results
InputRuntimes == 0..(MaxRuntime + 1)

\* The SynthesisResults a caller can pass: a flow that succeeded has a
\* runtime and may lack either metric; of a flow that failed compare_results
\* reads the success flag only.
SuccessResults ==
    [timing_levels : OptLevels, lut_count : OptCounts,
     runtime : {Some(r) : r \in InputRuntimes}, success : {TRUE},
     error_message : {None}]
FailedResults ==
    {[NewResults EXCEPT !.error_message = Some("err")],
     [timing_levels |-> Some(0), lut_count |-> None, runtime |-> Some(0),
      success |-> FALSE, error_message |-> Some("err")]}
InputResults == SuccessResults \cup FailedResults

InitCompare ==
    /\ pc = "compare_first"
    /\ results = NewResults
    /\ calls = <<>>
    /\ yosys_script = "none"
    /\ circt_results \in InputResults
    /\ yosys_results \in InputResults
    /\ hybrid_results \in InputResults
    /\ comparison = EmptyDict
    /\ raised = ""
    /\ cmd_env = IdleEnv
    /\ cmd_out = NoOut
    /\ compare_idle
    /\ batch_idle
    /\ exit_status = None
    /\ extract_idle

\* a compare_results that stores a count of 0 in the results that lack one
compare_first_writing_back ==
    /\ pc = "compare_first"
    /\ given' = Some(<<circt_results, yosys_results, hybrid_results>>)
    /\ LET c == compare_results(circt_results, yosys_results, Some(hybrid_results)) IN
       /\ comparison' = c.analysis
       /\ raised' = c.raises
    /\ circt_results' =
           IF IsNone(circt_results.lut_count)
           THEN [circt_results EXCEPT !.lut_count = Some(0)] ELSE circt_results
    /\ pc' = "compare_second"
    /\ UNCHANGED <<results, calls, yosys_script, yosys_results, hybrid_results,
                   cmd_env, cmd_out, again,
                   batch_vars,
                   exit_status,
                   extract_vars>>

\* the first call: compare_results reads the three objects and assigns to
\* none of them
compare_first ==
    /\ pc = "compare_first"
    /\ given' = Some(<<circt_results, yosys_results, hybrid_results>>)
    /\ LET c == compare_results(circt_results, yosys_results, Some(hybrid_results)) IN
       /\ comparison' = c.analysis
       /\ raised' = c.raises
    /\ pc' = "compare_second"
    /\ UNCHANGED <<results, calls, yosys_script, circt_results, yosys_results,
                   hybrid_results, cmd_env, cmd_out, again,
                   batch_vars,
                   exit_status,
                   extract_vars>>

\* the second call, on the same objects
compare_second ==
    /\ pc = "compare_second"
    /\ again' = Some(compare_results(circt_results, yosys_results,
                                     Some(hybrid_results)))
    /\ pc' = "compared_twice"
    /\ UNCHANGED <<results, calls, yosys_script, circt_results, yosys_results,
                   hybrid_results, comparison, raised, cmd_env, cmd_out, given,
                   batch_vars,
                   exit_status,
                   extract_vars>>

NextCompare == compare_first \/ compare_second

SpecCompare == InitCompare /\ [][NextCompare]_vars

----------------------------------------------------------------------------
(* run_batch_comparison.  The loop body handles one file in one step; what *)
(* the three flows return for the file is an input of the step.            *)

\* The files of the input directory, in the order verilog_files.sort() gives
\* them; two of them have the same file name.
AllPaths ==
    <<[dir |-> "a", name |-> "top.sv"], [dir |-> "b", name |-> "top.sv"],
      [dir |-> "c", name |-> "alu.sv"], [dir |-> "d", name |-> "mux.v"]>>

MaxFiles == 3

\* find_verilog_files on a directory that holds the files found
find_verilog_files(found) == SelectSeq(AllPaths, LAMBDA f : f \in found)

\* "Path(verilog_file).name"
Name(verilog_file) == verilog_file.name

\* batch_results['summary'] as run_batch_comparison creates it
NewSummary ==
    [successful_comparisons |-> 0, failed_comparisons |-> 0,
     circt_wins_timing |-> 0, yosys_wins_timing |-> 0, ties_timing |-> 0,
     circt_wins_area |-> 0, yosys_wins_area |-> 0, ties_area |-> 0,
     total_circt_time |-> 0, total_yosys_time |-> 0]

\* "analysis.get(key, 'Unable to compare')"
GetWinner(analysis, key) ==
    IF key \in DOMAIN analysis THEN analysis[key] ELSE Unable

\* "if comparison['circt'].runtime:" adds a runtime that is neither None nor 0
Truthy(runtime) == IF IsNone(runtime) THEN 0 ELSE Get(runtime)

\* a summary update that counts the successful comparisons only
update_summary_dropping_failures(s, c) ==
    IF c.circt.success /\ c.yosys.success
    THEN [s EXCEPT !.successful_comparisons = @ + 1]
    ELSE s

\* "# Update summary statistics"
update_summary(s, c) ==
    IF c.circt.success /\ c.yosys.success
    THEN LET timing_winner == GetWinner(c.analysis, "timing_winner")
             area_winner == GetWinner(c.analysis, "area_winner")
         IN  [s EXCEPT
                 !.successful_comparisons = @ + 1,
                 !.circt_wins_timing = IF timing_winner = "CIRCT" THEN @ + 1 ELSE @,
                 !.yosys_wins_timing = IF timing_winner = "Yosys+ABC" THEN @ + 1 ELSE @,
                 !.ties_timing = IF timing_winner = "Tie" THEN @ + 1 ELSE @,
                 !.circt_wins_area = IF area_winner = "CIRCT" THEN @ + 1 ELSE @,
                 !.yosys_wins_area = IF area_winner = "Yosys+ABC" THEN @ + 1 ELSE @,
                 !.ties_area = IF area_winner = "Tie" THEN @ + 1 ELSE @,
                 !.total_circt_time = @ + Truthy(c.circt.runtime),
                 !.total_yosys_time = @ + Truthy(c.yosys.runtime)]
    ELSE [s EXCEPT !.failed_comparisons = @ + 1]

\* "d[key] = value" on a dict
Store(d, key, value) ==
    [k \in DOMAIN d \cup {key} |-> IF k = key THEN value ELSE d[k]]

\* "# Store results", then the summary update
store_results(br, file_name, verilog_file, c) ==
    [br EXCEPT
        !.results = Store(@, file_name,
                          [file_path |-> verilog_file, circt |-> c.circt,
                           yosys |-> c.yosys, analysis |-> c.analysis]),
        !.summary = update_summary(@, c)]

\* a handler that records the failure entry without counting it
batch_except_uncounted(br, file_name, verilog_file, e) ==
    [br EXCEPT
        !.results = Store(@, file_name, [file_path |-> verilog_file, error |-> e])]

\* the loop body's "except Exception as e:"
batch_except(br, file_name, verilog_file, e) ==
    [br EXCEPT
        !.summary.failed_comparisons = @ + 1,
        !.results = Store(@, file_name, [file_path |-> verilog_file, error |-> e])]

\* What a flow can return for a file of the batch: its first stage failed,
\* or it succeeded with one of the sets of metrics given.
FlowReturns(failmsg, metrics) ==
    {[NewResults EXCEPT !.error_message = Some(failmsg \o "err")]}
        \cup {[timing_levels |-> Some(m[1]), lut_count |-> Some(m[2]),
               runtime |-> Some(m[3]), success |-> TRUE,
               error_message |-> None] : m \in metrics}

\* the depth, the cell count and the runtime of a flow that succeeded
Shallow == <<1, 2, 1>>
Small == <<2, 1, 2>>

InitBatch ==
    /\ pc = "batch_start"
    /\ results = NewResults
    /\ calls = <<>>
    /\ yosys_script = "none"
    /\ circt_results = NewResults
    /\ yosys_results = NewResults
    /\ hybrid_results = NewResults
    /\ comparison = EmptyDict
    /\ raised = ""
    /\ cmd_env = IdleEnv
    /\ cmd_out = NoOut
    /\ compare_idle
    /\ batch_idle
    /\ exit_status = None
    /\ extract_idle

\* run_batch_comparison up to its loop: the files are discovered and
\* batch_results is created; with no file it raises ValueError.
batch_start ==
    /\ pc = "batch_start"
    /\ \E found \in SUBSET {AllPaths[i] : i \in 1..Len(AllPaths)} :
          /\ Cardinality(found) <= MaxFiles
          /\ verilog_files' = find_verilog_files(found)
    /\ IF verilog_files' = <<>>
       THEN /\ raised' = "ValueError"
            /\ pc' = "batch_returned"
            /\ UNCHANGED batch_results
       ELSE /\ batch_results' =
                [input_path |-> "dir", total_files |-> Len(verilog_files'),
                 results |-> EmptyDict, summary |-> NewSummary]
            /\ pc' = "batch_loop"
            /\ UNCHANGED raised
    /\ UNCHANGED <<results, calls, yosys_script, circt_results, yosys_results,
                   hybrid_results, comparison, cmd_env, cmd_out, compare_vars,
                   file_index, handled,
                   exit_status,
                   extract_vars>>

\* One iteration of "for i, verilog_file in enumerate(verilog_files, 1)":
\* the file's comparator is created (init_fault is the exception of its
\* mkdir), run_comparison runs, and the result is stored and counted, or
\* the handler records the fault.
batch_file ==
    /\ pc = "batch_loop"
    /\ file_index < Len(verilog_files)
    /\ \E c \in {[raises |-> e] : e \in FsFaults \ {""}}
                 \cup {run_comparison(circt, yosys, hybrid, report_fault) :
                         circt \in FlowReturns("circt-verilog failed: ",
                                               {Shallow, Small}),
                         yosys \in FlowReturns("Yosys failed: ", {Shallow, Small}),
                         hybrid \in FlowReturns("circt-verilog failed: ", {Shallow}),
                         report_fault \in FsFaults} :
          LET verilog_file == verilog_files[file_index + 1]
              file_name == Name(verilog_file)
          IN  /\ batch_results' =
                     IF c.raises # ""
                     THEN batch_except(batch_results, file_name, verilog_file,
                                       c.raises)
                     ELSE store_results(batch_results, file_name, verilog_file, c)
              /\ handled' = Append(handled, [file |-> verilog_file, run |-> c])
    /\ file_index' = file_index + 1
    /\ pc' = IF file_index' = Len(verilog_files) THEN "batch_summary"
             ELSE "batch_loop"
    /\ UNCHANGED <<results, calls, yosys_script, circt_results, yosys_results,
                   hybrid_results, comparison, raised, cmd_env, cmd_out,
                   compare_vars, verilog_files,
                   exit_status,
                   extract_vars>>

\* After the loop: the summary is printed and batch_comparison_report.json
\* is saved; the exception of that write leaves run_batch_comparison.
batch_finish ==
    /\ pc = "batch_summary"
    /\ \E save_fault \in FsFaults : raised' = save_fault
    /\ pc' = "batch_returned"
    /\ UNCHANGED <<results, calls, yosys_script, circt_results, yosys_results,
                   hybrid_results, comparison, cmd_env, cmd_out, compare_vars,
                   batch_vars,
                   exit_status,
                   extract_vars>>

NextBatch == batch_start \/ batch_file \/ batch_finish \/ main_directory

SpecBatch == InitBatch /\ [][NextBatch]_vars

----------------------------------------------------------------------------
(* The metric extractors on their own: one extractor is called on one file *)

MaxLines == 3

\* The lines of a Yosys log: a line the pattern does not match, or a
\* statistics line with its depth
LogLines == {-1} \cup 0..(MaxLevel + 1)

\* A log in which the statistics line occurs three times, with the depths 12,
\* 9 and 15
ExampleLog == <<-1, 12, -1, 9, 15, -1>>

\* The logs given to _parse_yosys_abc_levels: one that cannot be read, every
\* text of at most MaxLines lines, and the example
LogFiles ==
    {[readable |-> FALSE, content |-> <<>>]}
        \cup {[readable |-> TRUE, content |-> c] :
                 c \in UNION {[1..k -> LogLines] : k \in 0..MaxLines}
                           \cup {ExampleLog}}

\* The files given to _count_luts_in_blif: one that cannot be read, and
\* netlists with 0 and more .names lines
NetlistFiles ==
    {[readable |-> FALSE, content |-> <<>>]}
        \cup {[readable |-> TRUE, content |-> BlifText(n)] :
                 n \in 0..(MaxLuts + 2)}

InitExtract ==
    /\ pc = "extract"
    /\ results = NewResults
    /\ calls = <<>>
    /\ yosys_script = "none"
    /\ circt_results = NewResults
    /\ yosys_results = NewResults
    /\ hybrid_results = NewResults
    /\ comparison = EmptyDict
    /\ raised = ""
    /\ cmd_env = IdleEnv
    /\ cmd_out = NoOut
    /\ compare_idle
    /\ batch_idle
    /\ exit_status = None
    /\ \/ \E f \in LogFiles :
             ext_in = Some([extractor |-> "_parse_yosys_abc_levels", file |-> f])
       \/ \E f \in JsonDocs :
             ext_in = Some([extractor |-> "_parse_circt_json", file |-> f])
       \/ \E f \in NetlistFiles :
             ext_in = Some([extractor |-> "_count_luts_in_blif", file |-> f])
    /\ ext_out = None

call_parse_yosys_abc_levels ==
    /\ pc = "extract"
    /\ Get(ext_in).extractor = "_parse_yosys_abc_levels"
    /\ ext_out' = Some(parse_yosys_abc_levels_call(Get(ext_in).file))
    /\ pc' = "extracted"
    /\ UNCHANGED <<results, calls, yosys_script, circt_results, yosys_results,
                   hybrid_results, comparison, raised, cmd_env, cmd_out,
                   compare_vars, batch_vars, exit_status, ext_in>>

call_parse_circt_json ==
    /\ pc = "extract"
    /\ Get(ext_in).extractor = "_parse_circt_json"
    /\ ext_out' = Some(parse_circt_json_call(Get(ext_in).file))
    /\ pc' = "extracted"
    /\ UNCHANGED <<results, calls, yosys_script, circt_results, yosys_results,
                   hybrid_results, comparison, raised, cmd_env, cmd_out,
                   compare_vars, batch_vars, exit_status, ext_in>>

call_count_luts_in_blif ==
    /\ pc = "extract"
    /\ Get(ext_in).extractor = "_count_luts_in_blif"
    /\ ext_out' = Some(count_luts_in_blif_call(Get(ext_in).file))
    /\ pc' = "extracted"
    /\ UNCHANGED <<results, calls, yosys_script, circt_results, yosys_results,
                   hybrid_results, comparison, raised, cmd_env, cmd_out,
                   compare_vars, batch_vars, exit_status, ext_in>>

NextExtract ==
    \/ call_parse_yosys_abc_levels
    \/ call_parse_circt_json
    \/ call_count_luts_in_blif

SpecExtract == InitExtract /\ [][NextExtract]_vars

----------------------------------------------------------------------------
(* Properties of the flows *)

\* A flow has returned and run_comparison has not yet stored its result.
Returned == pc \in {"circt_return", "yosys_return", "hybrid_return"}

\* The commands of the flow that has returned, in the order of its stages.
ReturnedFlowCommands ==
    IF pc = "circt_return" THEN <<"circt-verilog", "circt-synth">>
    ELSE IF pc = "yosys_return" THEN <<"yosys">>
    ELSE <<"circt-verilog", "circt-synth", "circt-translate", "yosys">>

FailureMessages ==
    {"circt-verilog failed: ", "circt-synth failed: ", "Yosys failed: ",
     "circt-translate AIGER export failed: ", "Yosys LUT mapping failed: "}

LastCallFailed == calls # <<>> /\ calls[Len(calls)].returncode # 0

\* C1: fail-fast sequencing.  In each flow a call that returns a non-zero
\* exit status is the last call the flow makes (no later stage is invoked),
\* and the flow has then returned with success = False.
C1_FailFast ==
    /\ \A i \in 1..Len(calls) : calls[i].returncode # 0 => i = Len(calls)
    /\ LastCallFailed => Returned /\ ~results.success

\* C1 witness: the hybrid flow has returned after circt-translate, its third
\* stage, failed; Yosys was never invoked.
C1_Witness ==
    /\ pc = "hybrid_return"
    /\ Len(calls) = 3
    /\ calls[3].cmd = "circt-translate"
    /\ calls[3].returncode # 0
    /\ ~results.success

\* C2: every result a flow returns with success = False has timing_levels
\* and lut_count both None, whatever fails inside the flow.
C2_FailedHasNoMetrics ==
    (Returned /\ ~results.success) =>
        IsNone(results.timing_levels) /\ IsNone(results.lut_count)

\* C3: when a stage returns a non-zero exit status the returned result has
\* that stage's stderr as its error message and its runtime populated.
C3_StageFailureKeepsRuntime ==
    (Returned /\ LastCallFailed) =>
        /\ \E m \in FailureMessages :
              results.error_message = Some(m \o calls[Len(calls)].stderr)
        /\ ~IsNone(results.runtime)

\* C4: every result a flow returns with success = True has no error message.
C4_SuccessHasNoErrorMessage ==
    (Returned /\ results.success) => IsNone(results.error_message)

\* C5: a flow returns success = True only if every stage of the flow was
\* invoked, in order, and each returned exit status zero.
C5_SuccessOnlyIfAllStagesPassed ==
    (Returned /\ results.success) =>
        /\ [i \in 1..Len(calls) |-> calls[i].cmd] = ReturnedFlowCommands
        /\ \A i \in 1..Len(calls) : calls[i].returncode = 0

\* C5 witness: the hybrid flow has returned success = True after four calls.
C5_Witness ==
    /\ pc = "hybrid_return"
    /\ results.success
    /\ Len(calls) = 4

\* C6: success = True implies a populated runtime, for the result a flow is
\* building or has returned and for the results run_comparison holds.
C6_SuccessHasRuntime ==
    \A r \in {results, circt_results, yosys_results, hybrid_results} :
        r.success => ~IsNone(r.runtime)

\* C6 witness: the Yosys flow has returned success = True with a runtime,
\* and the native flow's stored result is a success too.
C6_Witness ==
    /\ pc = "yosys_return"
    /\ results.success
    /\ results.runtime = Some(MaxRuntime)
    /\ circt_results.success

----------------------------------------------------------------------------
(* Properties of run_command *)

\* C7: run_command never raises.  When the launch raises (the executable is
\* missing, or any other exception) it returns exit status -1, an empty
\* stdout and the fault text as stderr; otherwise it returns the process's
\* exit status and, capturing the output as every caller does, the
\* process's stdout and stderr.
C7_RunCommandNeverRaises ==
    cmd_out.called =>
        /\ ~cmd_out.raises
        /\ cmd_env.launch = "FileNotFoundError" =>
              /\ cmd_out.returncode = -1
              /\ cmd_out.stdout = <<>>
              /\ cmd_out.stderr = "Command not found: FileNotFoundError"
        /\ cmd_env.launch = "OSError" =>
              /\ cmd_out.returncode = -1
              /\ cmd_out.stdout = <<>>
              /\ cmd_out.stderr = "Error running command: OSError"
        /\ cmd_env.launch = "ok" =>
              /\ cmd_out.returncode = cmd_env.returncode
              /\ cmd_env.capture_output =>
                    /\ cmd_out.stdout = cmd_env.stdout
                    /\ cmd_out.stderr = cmd_env.stderr

\* C7 witness: a call whose launch raised an exception other than
\* FileNotFoundError has returned.
C7_Witness ==
    /\ cmd_out.called
    /\ cmd_env.launch = "OSError"
    /\ cmd_out.returncode = -1

----------------------------------------------------------------------------
(* Properties of compare_results *)

Strategies == {"CIRCT", "Yosys+ABC", "CIRCT+Yosys"}

\* The fixed priority order: native, external, hybrid.
Priority(name) ==
    IF name = "CIRCT" THEN 1 ELSE IF name = "Yosys+ABC" THEN 2 ELSE 3

ResultOf(name) ==
    IF name = "CIRCT" THEN circt_results
    ELSE IF name = "Yosys+ABC" THEN yosys_results
    ELSE hybrid_results

\* The strategies that succeeded and report the metric.
Qualifying(field) ==
    {n \in Strategies : ResultOf(n).success /\ ~IsNone(ResultOf(n)[field])}

Value(name, field) == Get(ResultOf(name)[field])

Min(S) == CHOOSE m \in S : \A x \in S : m <= x

\* compare_results has returned an analysis.
Compared == pc = "done" /\ raised = ""

Has(key) == key \in DOMAIN comparison

\* The winner has the least value and the margin is the least value among
\* the other qualifying strategies minus the winner's.
RankedByMinimum(field, winner_key, margin_key) ==
    Cardinality(Qualifying(field)) >= 2 =>
        /\ Has(winner_key) /\ Has(margin_key)
        /\ \E w \in Qualifying(field) :
              /\ comparison[winner_key] = w
              /\ \A q \in Qualifying(field) : Value(w, field) <= Value(q, field)
              /\ comparison[margin_key] =
                    Min({Value(q, field) : q \in Qualifying(field) \ {w}})
                        - Value(w, field)

\* C8: for logic depth and for cell count, when at least two succeeded
\* strategies report the metric, the reported winner has the minimum value
\* and the reported margin is the second-smallest value (with multiplicity)
\* minus the smallest.
C8_WinnerIsMinimum ==
    Compared =>
        /\ RankedByMinimum("timing_levels", "timing_winner", "timing_improvement")
        /\ RankedByMinimum("lut_count", "area_winner", "area_improvement")

\* C8 witness: depths {CIRCT: m, Yosys+ABC: m, CIRCT+Yosys: 0} with m the
\* largest depth of the model; the hybrid flow wins by m.
C8_Witness ==
    /\ Compared
    /\ Qualifying("timing_levels") = Strategies
    /\ circt_results.timing_levels = Some(MaxLevel)
    /\ yosys_results.timing_levels = Some(MaxLevel)
    /\ hybrid_results.timing_levels = Some(0)
    /\ comparison["timing_winner"] = "CIRCT+Yosys"
    /\ comparison["timing_improvement"] = MaxLevel

\* No comparison possible: the marker is the winner, and there is neither a
\* mapping nor a margin.
MarkedUnable(field, winner_key, all_key, margin_key) ==
    Cardinality(Qualifying(field)) < 2 =>
        /\ Has(winner_key) /\ comparison[winner_key] = Unable
        /\ ~Has(all_key)
        /\ ~Has(margin_key)

\* C9: for each of depth, cell count and runtime, when fewer than two
\* strategies both succeeded and report the metric, the analysis holds the
\* marker 'Unable to compare' as that metric's winner, and no mapping and
\* no margin for it.
C9_UnableMarkerForEveryMetric ==
    Compared =>
        /\ MarkedUnable("timing_levels", "timing_winner", "timing_levels_all",
                        "timing_improvement")
        /\ MarkedUnable("lut_count", "area_winner", "lut_counts_all",
                        "area_improvement")
        /\ MarkedUnable("runtime", "runtime_winner", "runtimes_all", "speedup")

\* The winner is, among the qualifying strategies of least value, the first
\* in the priority order.
FirstOfTheBest(field, winner_key) ==
    Cardinality(Qualifying(field)) >= 2 =>
        LET best == {b \in Qualifying(field) :
                        \A q \in Qualifying(field) :
                            Value(b, field) <= Value(q, field)}
        IN  /\ Has(winner_key)
            /\ comparison[winner_key] \in best
            /\ \A b \in best : Priority(comparison[winner_key]) <= Priority(b)

\* C10: for every metric, when qualifying strategies share the best value
\* the reported winner is the first of them in the order CIRCT, Yosys+ABC,
\* CIRCT+Yosys.
C10_TieBreakByPriority ==
    Compared =>
        /\ FirstOfTheBest("timing_levels", "timing_winner")
        /\ FirstOfTheBest("lut_count", "area_winner")
        /\ FirstOfTheBest("runtime", "runtime_winner")

\* C10 witness: Yosys+ABC and CIRCT+Yosys share the best depth, CIRCT is
\* worse, and Yosys+ABC is the reported winner; the three runtimes are equal
\* and CIRCT is the reported runtime winner.
C10_Witness ==
    /\ Compared
    /\ circt_results.success
    /\ circt_results.timing_levels = Some(MaxLevel)
    /\ yosys_results.success
    /\ yosys_results.timing_levels = Some(0)
    /\ hybrid_results.success
    /\ hybrid_results.timing_levels = Some(0)
    /\ comparison["timing_winner"] = "Yosys+ABC"
    /\ circt_results.runtime = hybrid_results.runtime
    /\ yosys_results.runtime = circt_results.runtime
    /\ comparison["runtime_winner"] = "CIRCT"

----------------------------------------------------------------------------
(* Properties of compare_results on its own *)

Metrics ==
    {<<"timing_levels", "timing_winner", "timing_improvement">>,
     <<"lut_count", "area_winner", "area_improvement">>,
     <<"runtime", "runtime_winner", "speedup">>}

\* The values a caller can give a metric's field
FieldValues(field) ==
    IF field = "timing_levels" THEN OptLevels
    ELSE IF field = "lut_count" THEN OptCounts
    ELSE {Some(r) : r \in InputRuntimes}

\* What a call of compare_results reports for a metric: the winner and the
\* margin (None for a key the analysis lacks), or nothing at all when the
\* call raised.
Report(c, m) ==
    IF c.raises # "" THEN <<"nothing reported", c.raises>>
    ELSE <<IF m[2] \in DOMAIN c.analysis THEN Some(c.analysis[m[2]]) ELSE None,
           IF m[3] \in DOMAIN c.analysis THEN Some(c.analysis[m[3]]) ELSE None>>

\* compare_results on the three results, the i-th one with another value of
\* one field
CompareWith(i, field, v) ==
    LET passed == <<circt_results, yosys_results, hybrid_results>>
        other == [passed EXCEPT ![i][field] = v]
    IN  compare_results(other[1], other[2], Some(other[3]))

\* C12: what compare_results reports for a metric (winner and margin) is the
\* same for any two sets of results that agree on the success flags and on
\* that metric's values: giving one strategy another value of one of the
\* other two metrics changes nothing of the report.  (Two sets that agree on
\* the flags and on the metric differ by a chain of such single changes.)
C12_WinnerIndependentOfOtherMetrics ==
    pc = "compare_second" =>
        \A m \in Metrics : \A o \in Metrics \ {m} : \A i \in 1..3 :
            \A v \in FieldValues(o[1]) :
                Report(CompareWith(i, o[1], v), m)
                    = Report([raises |-> raised, analysis |-> comparison], m)

----------------------------------------------------------------------------
(* Properties of run_batch_comparison *)

\* The loop has handled every file and run_batch_comparison is past it.
BatchLoopOver ==
    pc \in {"batch_summary", "batch_returned"} /\ verilog_files # <<>>

\* The i-th file handled raised a fault.
Faulted(i) == handled[i].run.raises # ""

\* The step that handles one file: a faulting file adds exactly one to
\* failed_comparisons, changes no other counter and stores its failure
\* entry; a file that did not fault stores its result entry; the entries
\* under other names are left as they were; the loop goes on to the next
\* file while one remains.
IsolatedStep ==
    pc = "batch_loop" /\ file_index' = file_index + 1 =>
        LET h == handled'[file_index']
            name == Name(h.file)
            before == batch_results.summary
            after == batch_results'.summary
        IN  /\ h.file = verilog_files[file_index']
            /\ name \in DOMAIN batch_results'.results
            /\ IF h.run.raises # ""
               THEN /\ after.failed_comparisons = before.failed_comparisons + 1
                    /\ [after EXCEPT !.failed_comparisons = 0]
                           = [before EXCEPT !.failed_comparisons = 0]
                    /\ batch_results'.results[name]
                           = [file_path |-> h.file, error |-> h.run.raises]
               ELSE batch_results'.results[name]
                        = [file_path |-> h.file, circt |-> h.run.circt,
                           yosys |-> h.run.yosys, analysis |-> h.run.analysis]
            /\ \A k \in DOMAIN batch_results.results \ {name} :
                   /\ k \in DOMAIN batch_results'.results
                   /\ batch_results'.results[k] = batch_results.results[k]
            /\ pc' = IF file_index' < Len(verilog_files) THEN "batch_loop"
                     ELSE "batch_summary"

\* C13: a fault raised while a file of the batch is processed is caught: it
\* adds exactly one to failed_comparisons, a failure entry is recorded for
\* the file, and the loop continues with the next file; every file of the
\* batch is processed and its entry is stored when it is handled.
C13_BatchIsolation ==
    /\ [](BatchLoopOver =>
              /\ file_index = Len(verilog_files)
              /\ Len(handled) = Len(verilog_files))
    /\ [][IsolatedStep]_vars

\* A batch of three files in which the second one faulted: the results hold
\* the result entries of the first and the third, and failed_comparisons = 1.
C13_Witness ==
    /\ BatchLoopOver
    /\ Len(verilog_files) = 3
    /\ ~Faulted(1) /\ Faulted(2) /\ ~Faulted(3)
    /\ batch_results.summary.failed_comparisons = 1
    /\ batch_results.summary.successful_comparisons = 2
    /\ Cardinality(DOMAIN batch_results.results) = 3
    /\ "analysis" \in DOMAIN batch_results.results[Name(verilog_files[1])]
    /\ "error" \in DOMAIN batch_results.results[Name(verilog_files[2])]
    /\ "analysis" \in DOMAIN batch_results.results[Name(verilog_files[3])]

AllThreeSucceeded(c) == c.circt.success /\ c.yosys.success /\ c.hybrid.success

\* The files handled so far on which the three strategies succeeded
HandledAllSucceeded ==
    {i \in 1..Len(handled) : ~Faulted(i) /\ AllThreeSucceeded(handled[i].run)}

\* The files handled so far on which one of the three strategies failed
HandledSomeFailed ==
    {i \in 1..Len(handled) : ~Faulted(i) /\ ~AllThreeSucceeded(handled[i].run)}

\* C14: successful_comparisons counts only files on which all three
\* strategies (CIRCT, Yosys+ABC and CIRCT+Yosys) succeeded, and every file on
\* which one of the three failed is counted in failed_comparisons.
C14_SuccessCountsAllStrategies ==
    pc = "batch_loop" \/ BatchLoopOver =>
        /\ batch_results.summary.successful_comparisons
               <= Cardinality(HandledAllSucceeded)
        /\ batch_results.summary.failed_comparisons
               >= Cardinality(HandledSomeFailed)

----------------------------------------------------------------------------
(* Properties of main *)

\* main has exited after a comparison whose report was written.
ExitedAfterComparison == pc = "exited" /\ raised # "OSError"

\* C15: on a single file, whatever the three flows returned (runtimes of 0
\* included), main exits with status 0 when all three strategies succeeded
\* and with a non-zero status when all three failed.
C15_SingleFileExitStatus ==
    ExitedAfterComparison =>
        /\ (circt_results.success /\ yosys_results.success
                /\ hybrid_results.success => exit_status = Some(0))
        /\ (~circt_results.success /\ ~yosys_results.success
                /\ ~hybrid_results.success => exit_status # Some(0))

\* main has exited after a batch that found files and wrote its report.
ExitedAfterBatch == pc = "exited" /\ verilog_files # <<>> /\ raised = ""

\* A file fully succeeded: no fault was raised for it and the three
\* strategies succeeded on it.
FullySucceeded(i) == ~Faulted(i) /\ AllThreeSucceeded(handled[i].run)

\* C16: on a directory, main exits with status 0 if and only if every
\* discovered file fully succeeded; when a file failed the status is not 0.
C16_BatchExitStatus ==
    ExitedAfterBatch =>
        (exit_status = Some(0) <=> \A i \in 1..Len(handled) : FullySucceeded(i))

----------------------------------------------------------------------------
(* Properties of the metric extractors *)

\* The extractor named has been called on its own.
Extracted(extractor) ==
    pc = "extracted" /\ Get(ext_in).extractor = extractor

\* The depths of the statistics lines of a log, in the order of the text
StatLines(content) == SelectSeq(content, LAMBDA line : line >= 0)

\* C17: on a log that holds one or more statistics lines
\* _parse_yosys_abc_levels returns the integer of the last one in the order
\* of the text; without any it returns None.
C17_LastMatchWins ==
    Extracted("_parse_yosys_abc_levels") =>
        LET found == StatLines(Get(ext_in).file.content) IN
        /\ Get(ext_out).raises = ""
        /\ found # <<>> => Get(ext_out).value = Some(found[Len(found)])
        /\ found = <<>> => Get(ext_out).value = None

\* A log of three statistics lines whose last depth is neither the first,
\* nor the smallest, nor the largest one has been parsed.
C17_Witness ==
    /\ Extracted("_parse_yosys_abc_levels")
    /\ LET found == StatLines(Get(ext_in).file.content) IN
       /\ Len(found) = 3
       /\ found[3] # found[1]
       /\ \E i \in 1..3 : found[i] < found[3]
       /\ \E i \in 1..3 : found[i] > found[3]
       /\ Get(ext_out).value = Some(found[3])

\* _parse_yosys_abc_levels has been called on a log whose statistics lines
\* hold, in this order, the depths 12, 9 and 15.
ExampleParsed ==
    /\ Extracted("_parse_yosys_abc_levels")
    /\ StatLines(Get(ext_in).file.content) = <<12, 9, 15>>

\* C18, as the code has it: given a log whose statistics-line matches are,
\* in order, 12, 9, 15, _parse_yosys_abc_levels returns 15, the last one.
C18_ExampleReturnsLast == ExampleParsed => Get(ext_out).value = Some(15)

\* The example log has been parsed and a depth was returned.
C18_Witness == ExampleParsed /\ Get(ext_out).value # None

\* C18 as it is stated: given a log whose statistics-line matches are, in
\* order, 12, 9, 15, the extractor returns 9.
C18_ExampleReturnsNine == ExampleParsed => Get(ext_out).value = Some(9)

\* A longest-path document that opens and parses, whose first module has a
\* non-empty 'timing_levels' list in which every bucket has a 'level'.
WellFormed(doc) ==
    /\ doc.readable
    /\ doc.data # <<>>
    /\ doc.data[1].has_timing_levels
    /\ doc.data[1].timing_levels # <<>>
    /\ \A i \in 1..Len(doc.data[1].timing_levels) :
           ~IsNone(doc.data[1].timing_levels[i].level)

\* The positions of the buckets whose percentage is 100
FullBuckets(buckets) == {i \in 1..Len(buckets) : buckets[i].percentage = 100}

\* C19: on a well-formed document with a non-empty bucket list
\* _parse_circt_json returns the maximum 'level' over all buckets as the depth
\* and the count of the first bucket whose percentage is 100 as the cell
\* count (None when no bucket has percentage 100); on a document that is
\* missing or malformed, lacks the field or has an empty bucket list it
\* returns (None, None); it never raises.
C19_StructuredReportExtractor ==
    Extracted("_parse_circt_json") =>
        LET doc == Get(ext_in).file
            out == Get(ext_out)
        IN  /\ out.raises = ""
            /\ WellFormed(doc) =>
                   LET buckets == doc.data[1].timing_levels IN
                   /\ \E i \in 1..Len(buckets) :
                          /\ out.value[1] = buckets[i].level
                          /\ \A j \in 1..Len(buckets) :
                                 Get(buckets[j].level) <= Get(buckets[i].level)
                   /\ out.value[2] =
                          IF FullBuckets(buckets) = {} THEN None
                          ELSE buckets[Min(FullBuckets(buckets))].count
            /\ ~WellFormed(doc) => out.value = <<None, None>>

\* A document of two buckets has been parsed: the deeper one comes first,
\* both have percentage 100 and their counts differ.
C19_Witness ==
    /\ Extracted("_parse_circt_json")
    /\ WellFormed(Get(ext_in).file)
    /\ LET buckets == Get(ext_in).file.data[1].timing_levels IN
       /\ Len(buckets) = 2
       /\ Get(buckets[1].level) > Get(buckets[2].level)
       /\ FullBuckets(buckets) = {1, 2}
       /\ buckets[1].count # None /\ buckets[2].count # None
       /\ buckets[1].count # buckets[2].count
       /\ Get(ext_out).value = <<buckets[1].level, buckets[1].count>>

\* The number of .names lines of a netlist text
NamesLines(content) ==
    Cardinality({i \in 1..Len(content) : content[i] = ".names"})

\* C20: on a netlist with n .names lines _count_luts_in_blif returns n when
\* n > 0 and None, never 0, when n = 0; on a file that cannot be read it
\* returns None; it never raises.
C20_NetlistExtractor ==
    Extracted("_count_luts_in_blif") =>
        LET file == Get(ext_in).file
            out == Get(ext_out)
        IN  /\ out.raises = ""
            /\ out.value # Some(0)
            /\ file.readable /\ NamesLines(file.content) > 0 =>
                   out.value = Some(NamesLines(file.content))
            /\ file.readable /\ NamesLines(file.content) = 0 => out.value = None
            /\ ~file.readable => out.value = None

\* A netlist with three .names lines has been counted: the value is 3.
C20_Witness ==
    /\ Extracted("_count_luts_in_blif")
    /\ Get(ext_in).file.readable
    /\ NamesLines(Get(ext_in).file.content) = 3
    /\ Get(ext_out).value = Some(3)

(***************************************************************************)
(* Properties of the comparison, the batch and the cleanup                 *)
(***************************************************************************)

\* Every command the flow has run so far exited with status 0.
EveryStageExitedZero ==
    /\ calls # <<>>
    /\ \A i \in DOMAIN calls : calls[i].returncode = 0

\* The JSON report is not there, or it is there and cannot be used.
UnusableJson ==
    {json \in JsonStates :
        \/ json.exists = "no"
        \/ json.exists = "yes" /\ ~WellFormed(json.file)}

\* The netlist file is not there, or it is there and yields no count.
UnusableBlif ==
    {blif \in BlifStates :
        \/ blif.exists = "no"
        \/ /\ blif.exists = "yes"
           /\ \/ ~blif.file.readable
              \/ NamesLines(blif.file.content) = 0}

\* The mapping of all values of each metric, with the field it is made from
Rankings ==
    {<<"timing_levels", "timing_levels_all">>, <<"lut_count", "lut_counts_all">>,
     <<"runtime", "runtimes_all">>}

\* The strategy has an entry in the mapping of all values of a metric.
Ranked(name, all_key) ==
    /\ Has(all_key)
    /\ \E i \in DOMAIN comparison[all_key] : comparison[all_key][i][1] = name

\* C21: degraded success.  When every stage of a flow has exited with status
\* 0 and the JSON report (native flow) or the netlist file (external and
\* hybrid flow) is missing or unusable, the flow sets success = True and
\* leaves the corresponding metric None, and a flow whose stages all exited
\* with 0 and that recorded no error has returned with success = True; in
\* the analysis compare_results returns, the values of a metric are mapped
\* when at least two succeeded strategies report it, and a strategy is in the
\* mapping of a metric exactly when it succeeded and reports that metric.
C21_DegradedSuccess ==
    /\ pc = "circt_json" /\ EveryStageExitedZero =>
           \A rt \in Runtimes, json \in UnusableJson :
               LET r == parse_json_results(results, json, rt) IN
               r.success /\ IsNone(r.timing_levels) /\ IsNone(r.lut_count)
    /\ pc \in {"yosys_blif", "hybrid_blif"} /\ EveryStageExitedZero =>
           \A rt \in Runtimes, blif \in UnusableBlif :
               LET r == count_blif_results(results, "Yosys synthesis error: ",
                                           blif, rt) IN
               /\ r.success /\ IsNone(r.lut_count)
               /\ r.timing_levels = results.timing_levels
    /\ /\ Returned /\ EveryStageExitedZero
       /\ Len(calls) = Len(ReturnedFlowCommands)
       /\ IsNone(results.error_message)
       => results.success
    /\ Compared =>
           \A m \in Rankings :
               /\ Has(m[2]) <=> Cardinality(Qualifying(m[1])) >= 2
               /\ \A n \in Strategies :
                      Has(m[2]) => (Ranked(n, m[2]) <=> n \in Qualifying(m[1]))

\* All three flows succeeded, the external one without a cell count: it is
\* in the mappings of the depths and of the runtimes and not in the mapping
\* of the cell counts, which holds the other two.
C21_Witness ==
    /\ Compared
    /\ circt_results.success /\ yosys_results.success /\ hybrid_results.success
    /\ IsNone(yosys_results.lut_count) /\ ~IsNone(yosys_results.timing_levels)
    /\ Ranked("Yosys+ABC", "timing_levels_all")
    /\ Ranked("Yosys+ABC", "runtimes_all")
    /\ Has("lut_counts_all") /\ ~Ranked("Yosys+ABC", "lut_counts_all")
    /\ Ranked("CIRCT", "lut_counts_all") /\ Ranked("CIRCT+Yosys", "lut_counts_all")

\* compare_results has been called on the three results.
ComparedOnce == pc \in {"compare_second", "compared_twice"}

\* The least and the second-least runtime (with multiplicity) among the
\* succeeded strategies that report one
BestRuntime == Min({Value(q, "runtime") : q \in Qualifying("runtime")})
SecondRuntime ==
    LET w == CHOOSE q \in Qualifying("runtime") :
                 Value(q, "runtime") = BestRuntime
    IN  Min({Value(q, "runtime") : q \in Qualifying("runtime") \ {w}})

\* C22 as stated: when at least two succeeded strategies report a runtime,
\* the margin the analysis holds for the runtime metric ('speedup') equals
\* the second-best runtime minus the best runtime.
C22_RuntimeMarginIsDifference ==
    ComparedOnce /\ Cardinality(Qualifying("runtime")) >= 2 =>
        /\ raised = ""
        /\ Has("speedup")
        /\ comparison["speedup"] = <<SecondRuntime - BestRuntime, 1>>

\* C22, amended: when at least two succeeded strategies report a runtime and
\* the best runtime is positive, the analysis holds as 'speedup' the
\* second-best runtime divided by the best runtime, a ratio and not a
\* difference, and the strategy with the best runtime as the winner; when the
\* best runtime is 0 the division raises and no analysis is returned.
C22_RuntimeMarginIsRatio ==
    ComparedOnce /\ Cardinality(Qualifying("runtime")) >= 2 =>
        /\ BestRuntime > 0 =>
               /\ raised = ""
               /\ Has("speedup") /\ Has("runtime_winner")
               /\ comparison["speedup"][2] > 0
               /\ comparison["speedup"][1] * BestRuntime
                      = comparison["speedup"][2] * SecondRuntime
               /\ comparison["runtime_winner"] \in Qualifying("runtime")
               /\ Value(comparison["runtime_winner"], "runtime") = BestRuntime
        /\ BestRuntime = 0 =>
               raised = "ZeroDivisionError" /\ comparison = EmptyDict

\* Runtimes 1, 2 and 2: the ratio is 2 where the difference is 1.
C22_Witness ==
    /\ ComparedOnce
    /\ Qualifying("runtime") = Strategies
    /\ BestRuntime = 1 /\ SecondRuntime = 2
    /\ raised = ""
    /\ comparison["speedup"] = <<2, 1>>

\* The external or the hybrid flow has returned after it created its script.
ReturnedWithScript ==
    /\ pc \in {"yosys_return", "hybrid_return"}
    /\ yosys_script # "none"

\* The flow's script-driven stage exited with a non-zero status.
ScriptStageFailed ==
    /\ LastCallFailed
    /\ calls[Len(calls)].cmd = "yosys"

\* C23: on every return of the external flow and of the hybrid flow after
\* the transient script was created, on the success path (every stage exited
\* with 0, no error recorded) and on the stage-failure path (the yosys
\* command exited non-zero) alike, the script has been deleted.
C23_ScriptDeletedOnReturn ==
    /\ ReturnedWithScript
    /\ \/ results.success /\ IsNone(results.error_message)
       \/ ScriptStageFailed
    => yosys_script = "deleted"

\* The labels of each flow, in the order run_comparison calls the flows
CirctLabels == {"circt_verilog", "circt_synth", "circt_json", "circt_return"}
YosysLabels ==
    {"yosys_script", "yosys_run", "yosys_blif", "yosys_unlink", "yosys_return"}
HybridLabels ==
    {"hybrid_verilog", "hybrid_synth", "hybrid_translate", "hybrid_script",
     "hybrid_run", "hybrid_blif", "hybrid_unlink", "hybrid_return"}

\* Where run_comparison is: in the native flow (1), the external flow (2),
\* the hybrid flow (3), at the call of compare_results (4) or past it (5)
Phase(label) ==
    IF label \in CirctLabels THEN 1
    ELSE IF label \in YosysLabels THEN 2
    ELSE IF label \in HybridLabels THEN 3
    ELSE IF label = "compare" THEN 4 ELSE 5

\* A step stays in its phase or goes to the next one; it leaves a flow only
\* from the flow's return, whatever the result returned, and then stores
\* that result and enters the next flow at its first statement (after the
\* hybrid flow, the comparison); the stored results and the analysis change
\* at no other step.
OrderedStep ==
    /\ Phase(pc') \in {Phase(pc), Phase(pc) + 1}
    /\ pc = "circt_return" =>
           pc' = "yosys_script" /\ circt_results' = results
    /\ pc = "yosys_return" =>
           pc' = "hybrid_verilog" /\ yosys_results' = results
    /\ pc = "hybrid_return" =>
           pc' = "compare" /\ hybrid_results' = results
    /\ pc # "circt_return" => circt_results' = circt_results
    /\ pc # "yosys_return" => yosys_results' = yosys_results
    /\ pc # "hybrid_return" => hybrid_results' = hybrid_results
    /\ pc # "compare" => comparison' = comparison
    /\ Phase(pc') # Phase(pc) /\ Phase(pc) <= 3 => Returned

\* C24: run_comparison runs the native flow to its return, then the external
\* flow to its return, then the hybrid flow to its return, no step of one
\* flow between the steps of another; each flow that has returned is followed
\* by the next one whatever its result, and compare_results is called only
\* after the hybrid flow has returned, the analysis being empty until then.
C24_FlowOrdering ==
    /\ [](/\ Returned => ENABLED (circt_return \/ yosys_return \/ hybrid_return)
          /\ Phase(pc) <= 4 => comparison = EmptyDict /\ raised = "")
    /\ [][OrderedStep]_vars

\* compare_results is about to be called after all three flows failed.
C24_Witness ==
    /\ pc = "compare"
    /\ \A n \in Strategies :
           ~ResultOf(n).success /\ ~IsNone(ResultOf(n).error_message)

\* batch_results exists: the loop is running or over.
InBatch == pc = "batch_loop" \/ BatchLoopOver

\* The files handled so far that run_batch_comparison counted as successful
\* comparisons
CountedSuccessful ==
    {i \in 1..Len(handled) :
        /\ ~Faulted(i)
        /\ handled[i].run.circt.success /\ handled[i].run.yosys.success}

\* C25: after any number of files of a batch, whatever the flows returned
\* for them (equal depths and equal cell counts between strategies
\* included), ties_timing = 0 and ties_area = 0, and no analysis stored for
\* a file holds the winner 'Tie'.
C25_TieTalliesAreZero ==
    InBatch =>
        /\ batch_results.summary.ties_timing = 0
        /\ batch_results.summary.ties_area = 0
        /\ \A i \in 1..Len(handled) :
               ~Faulted(i) =>
                   /\ GetWinner(handled[i].run.analysis, "timing_winner") # "Tie"
                   /\ GetWinner(handled[i].run.analysis, "area_winner") # "Tie"

\* The batch is over and on one of its files the native and the external
\* flow succeeded with the same depth and the same cell count: the file is
\* a win of the native flow on both metrics, and no tie is counted.
C25_Witness ==
    /\ BatchLoopOver
    /\ \E i \in CountedSuccessful :
          /\ handled[i].run.circt.timing_levels = handled[i].run.yosys.timing_levels
          /\ handled[i].run.circt.lut_count = handled[i].run.yosys.lut_count
          /\ ~handled[i].run.hybrid.success
          /\ handled[i].run.analysis["timing_winner"] = "CIRCT"
          /\ handled[i].run.analysis["area_winner"] = "CIRCT"
    /\ batch_results.summary.ties_timing = 0
    /\ batch_results.summary.ties_area = 0
    /\ batch_results.summary.circt_wins_timing > 0

\* The files handled so far that did not fault: their flows' results reached
\* run_batch_comparison.
Processed == {i \in 1..Len(handled) : ~Faulted(i)}

\* The sum of a strategy's populated runtimes over the first n files handled
RECURSIVE SumOfRuntimes(_, _)
SumOfRuntimes(strategy, n) ==
    IF n = 0 THEN 0
    ELSE SumOfRuntimes(strategy, n - 1)
             + (IF n \in Processed /\ ~IsNone(handled[n].run[strategy].runtime)
                THEN Get(handled[n].run[strategy].runtime) ELSE 0)

\* The summary holds the total under the key, and it is the strategy's sum.
HoldsTotal(key, strategy) ==
    /\ key \in DOMAIN batch_results.summary
    /\ batch_results.summary[key] = SumOfRuntimes(strategy, Len(handled))

\* C26: after a batch the summary holds for each strategy (native, external,
\* hybrid) a runtime total equal to the sum of that strategy's populated
\* runtimes over all the files processed.
C26_BatchRuntimeTotals ==
    BatchLoopOver =>
        /\ HoldsTotal("total_circt_time", "circt")
        /\ HoldsTotal("total_yosys_time", "yosys")
        /\ HoldsTotal("total_hybrid_time", "hybrid")

\* The files counted as successful comparisons for which compare_results
\* reports a strategy as the winner under the key
WithWinner(winner_key) ==
    {i \in CountedSuccessful :
        GetWinner(handled[i].run.analysis, winner_key) \in Strategies}

\* C27: at the end of a batch, for timing and for area, the sum of the
\* metric's win and tie tallies equals the number of files counted as
\* successful comparisons on which some strategy (CIRCT, Yosys+ABC or
\* CIRCT+Yosys) won the metric: each such file added one to exactly one
\* tally.
C27_BatchWinTallies ==
    BatchLoopOver =>
        LET s == batch_results.summary IN
        /\ s.circt_wins_timing + s.yosys_wins_timing + s.ties_timing
               = Cardinality(WithWinner("timing_winner"))
        /\ s.circt_wins_area + s.yosys_wins_area + s.ties_area
               = Cardinality(WithWinner("area_winner"))

\* The step that handles one file adds one to exactly one of the two
\* counters and lowers neither.
CountingStep ==
    pc = "batch_loop" /\ file_index' = file_index + 1 =>
        LET before == batch_results.summary
            after == batch_results'.summary
        IN  /\ after.successful_comparisons >= before.successful_comparisons
            /\ after.failed_comparisons >= before.failed_comparisons
            /\ after.successful_comparisons + after.failed_comparisons
                   = before.successful_comparisons + before.failed_comparisons + 1

\* C28: after each file of a batch is handled, by the loop body or by its
\* fault handler, successful_comparisons + failed_comparisons equals the
\* number of files handled so far; neither counter ever decreases; at the
\* end of the batch the sum equals total_files.
C28_BatchCounterConservation ==
    /\ [](InBatch =>
              /\ batch_results.summary.successful_comparisons
                     + batch_results.summary.failed_comparisons = file_index
              /\ file_index = Len(handled)
              /\ BatchLoopOver =>
                     batch_results.summary.successful_comparisons
                         + batch_results.summary.failed_comparisons
                         = batch_results.total_files)
    /\ [][CountingStep]_vars

\* A batch of three files is over: one was counted successful, one failed
\* because a flow failed, one was handled by the fault handler.
C28_Witness ==
    /\ BatchLoopOver
    /\ batch_results.total_files = 3
    /\ batch_results.summary.successful_comparisons = 1
    /\ batch_results.summary.failed_comparisons = 2
    /\ \E i \in 1..3 : Faulted(i)
    /\ \E i \in 1..3 : ~Faulted(i) /\ ~handled[i].run.yosys.success

\* C29: at the end of a batch the results mapping has one entry per
\* discovered file, so that its size equals total_files, and the entry found
\* under a file's name is that file's entry, also when two discovered files
\* in different directories have the same name.
C29_BatchResultCompleteness ==
    BatchLoopOver =>
        /\ Cardinality(DOMAIN batch_results.results) = batch_results.total_files
        /\ \A i \in 1..Len(verilog_files) :
               /\ Name(verilog_files[i]) \in DOMAIN batch_results.results
               /\ batch_results.results[Name(verilog_files[i])].file_path
                      = verilog_files[i]

\* C30: compare_results returns an analysis, without raising, for every
\* three results of the data model (depth and cell count an integer >= 0 or
\* None, runtime >= 0), a best runtime of exactly 0 among the succeeded
\* strategies included.
C30_ComparatorTotality ==
    ComparedOnce => raised = ""

============================================================================
